---- MODULE Spec2Model ----
(***************************************************************************)
(* Model of demos/demo-code-analysis.py: the shared counter and the driver *)
(* (main), the UserManager registry, and the OrderManager pricing and      *)
(* sqlite persistence.                                                     *)
(*                                                                         *)
(* Four groups of operations are checked under their own specifications,   *)
(* over one set of variables:                                              *)
(*   SpecMain / FairSpecMain  the driver and its counter threads           *)
(*   SpecUsers                calls on one UserManager                     *)
(*   SpecOrders               create_order on one OrderManager and init_db *)
(*   SpecPricing              pricing calls on one OrderManager            *)
(*                                                                         *)
(* Money is exact: a subtotal is a whole number of cents, a rate a whole   *)
(* number of 1/Scale, and a total a whole number of cents / Scale^2.  The  *)
(* source computes the same expression in binary floating point.           *)
(***************************************************************************)
EXTENDS Integers, Sequences, FiniteSets, TLC

\* ------------------------------------------------------------------ bounds
MaxThreads == 2   \* threads the driver creates (main creates 4)
MaxN == 2         \* iterations per thread (main passes 10000)
MaxStart == 1     \* value of SHARED_COUNTER before the threads start
MaxUsers == 2     \* length of UserManager.users
MaxSubtotal == 20 \* subtotals range over -MaxSubtotal..MaxSubtotal cents
MaxUserType == 3  \* user_type ranges over -1..MaxUserType
MaxRows == 2      \* rows of the orders table
MaxAmount == 2    \* amounts range over 0..MaxAmount
MaxOpen == 2      \* connections left open at one time

VARIABLES
    SHARED_COUNTER,  \* the module global
    start,           \* SHARED_COUNTER when the driver reached the thread phase
    nthreads,        \* len(threads) in main
    n,               \* the argument of increment_shared_counter
    mainpc,          \* the driver's position in main
    k,               \* index of the driver's start / join loop
    tpc,             \* thread -> "created" | "loop" | "store" | "done"
    ti,              \* thread -> iterations of its for loop completed
    treg,            \* thread -> the value it loaded from SHARED_COUNTER
    total,           \* main's local total
    users,           \* UserManager.users: a sequence of dicts
    db_path,         \* OrderManager.db_path
    disk,            \* path -> the sqlite database stored in that file
    openConns,       \* connections opened by a call and not closed
    lastCall         \* the last call made on a manager and how it ended

vars == <<SHARED_COUNTER, start, nthreads, n, mainpc, k, tpc, ti, treg, total,
          users, db_path, disk, openConns, lastCall>>

counterVars == <<SHARED_COUNTER, start, nthreads, n, tpc, ti, treg>>
orderVars == <<db_path, disk, openConns>>

Threads == 1..MaxThreads

\* ------------------------------------------------------------ UserManager
\* A dict is a function on a subset of its possible keys; an Optional value
\* is a sequence of length 0 (None) or 1.
EmptyDict == [key \in {} |-> 0]
None == <<>>
Some(d) == <<d>>

Usernames == {"", "bob", "alice", "nobody"}
StoredNames == {"", "bob", "alice"}
Ages == {-5, 30, 150, 151}

UserDicts ==
    {EmptyDict}
        \cup {[username |-> nm] : nm \in StoredNames}
        \cup {[age |-> 30]}
        \cup {[username |-> nm, age |-> 30] : nm \in StoredNames}

UserInputs == {None} \cup {Some(d) : d \in UserDicts}

\* Python truth value of u: None and the empty dict are false
Truthy(u) == u # None /\ DOMAIN u[1] # {}

\* d[key] = v
SetItem(d, key, v) ==
    [kk \in DOMAIN d \cup {key} |-> IF kk = key THEN v ELSE d[kk]]

\* user.get("username") == username, for a username that is a string
UsernameIs(user, username) ==
    "username" \in DOMAIN user /\ user["username"] = username

\* if u: self.users.append(u)
add_user(us, u) == IF Truthy(u) THEN Append(us, u[1]) ELSE us

\* index of the first user the loop of update_user_age matches, or 0
FirstMatch(us, username) ==
    IF \E i \in 1..Len(us) : UsernameIs(us[i], username)
    THEN CHOOSE i \in 1..Len(us) :
            /\ UsernameIs(us[i], username)
            /\ \A j \in 1..(i - 1) : ~UsernameIs(us[j], username)
    ELSE 0

\* the users after update_user_age(username, age)
update_user_age(us, username, age) ==
    LET i == FirstMatch(us, username)
    IN  IF i = 0 THEN us ELSE [us EXCEPT ![i] = SetItem(@, "age", age)]

AddUser(u) ==
    /\ Len(users) < MaxUsers
    /\ users' = add_user(users, u)
    /\ lastCall' = [op |-> "add_user", u |-> u, before |-> users,
                    raised |-> "none"]
    /\ UNCHANGED <<counterVars, mainpc, k, total, orderVars>>

UpdateUserAge(username, age) ==
    /\ users' = update_user_age(users, username, age)
    /\ lastCall' = [op |-> "update_user_age", username |-> username,
                    age |-> age, before |-> users,
                    ret |-> (FirstMatch(users, username) # 0),
                    raised |-> "none"]
    /\ UNCHANGED <<counterVars, mainpc, k, total, orderVars>>

\* ----------------------------------------------------- OrderManager pricing
\* Rates are whole numbers of 1/Scale: 0.0825 = 33/400, 0.2 = 80/400,
\* 0.1 = 40/400 (a larger Scale overflows TLC's 32-bit integers).
Scale == 400
TAX == 33
DISCOUNT_VIP == 80
DISCOUNT_REGULAR == 40

\* the branches with the two discounts exchanged
DiscountSwapped(user_type) ==
    IF user_type = 1 THEN DISCOUNT_VIP
    ELSE IF user_type = 2 THEN DISCOUNT_REGULAR
    ELSE 0

\* the if / elif / else on user_type
Discount(user_type) ==
    IF user_type = 1 THEN DISCOUNT_REGULAR
    ELSE IF user_type = 2 THEN DISCOUNT_VIP
    ELSE 0

\* (subtotal * (1 - discount)) * (1 + self.TAX), in cents / Scale^2
total_with_tax_and_discount(subtotal, user_type) ==
    (subtotal * (Scale - Discount(user_type))) * (Scale + TAX)

\* total_with_tax_and_discount(subtotal, user_type) on an OrderManager
TotalWithTaxAndDiscount(subtotal, user_type) ==
    /\ lastCall' = [op |-> "total_with_tax_and_discount",
                    subtotal |-> subtotal, user_type |-> user_type,
                    ret |-> total_with_tax_and_discount(subtotal, user_type),
                    raised |-> "none"]
    /\ UNCHANGED <<counterVars, mainpc, k, total, users, orderVars>>

\* ------------------------------------------------------------------ sqlite
\* A database is the list of its tables and the rows of orders.  A value is
\* text or a number; a statement is a sequence of characters (each a
\* string; "--" stands for the two characters that start a comment).
MEMORY == ":memory:"
FilePaths == {"orders.db"}
DbPaths == {MEMORY} \cup FilePaths

EmptyDb == [tables |-> <<>>, rows |-> <<>>]

TextVal(s) == [kind |-> "text", text |-> s, num |-> 0]
RealVal(v) == [kind |-> "real", text |-> <<>>, num |-> v]

Digits == <<"0", "1", "2", "3", "4", "5", "6", "7", "8", "9">>
DigitChars == {Digits[i] : i \in 1..Len(Digits)}
DigitVal(c) == (CHOOSE i \in 1..Len(Digits) : Digits[i] = c) - 1

RECURSIVE FormatNat(_)
\* the decimal text of a number, as f"{amount}" writes it
FormatNat(v) ==
    IF v < 10 THEN <<Digits[v + 1]>>
    ELSE FormatNat(v \div 10) \o <<Digits[(v % 10) + 1]>>

RECURSIVE ParseNat(_)
\* the number a run of digits denotes
ParseNat(ds) ==
    IF Len(ds) = 1 THEN DigitVal(ds[1])
    ELSE 10 * ParseNat(SubSeq(ds, 1, Len(ds) - 1)) + DigitVal(ds[Len(ds)])

\* sqlite3.connect(path): a fresh private database for ":memory:", the
\* file's database for a file path
Connect(path) == IF path = MEMORY THEN EmptyDb ELSE disk[path]

\* f"INSERT INTO orders(user, amount) VALUES ('{username}', {amount})":
\* the text after VALUES
BuildInsert(username, amount) ==
    <<"(", "'">> \o username \o <<"'", ",">> \o FormatNat(amount) \o <<")">>

RECURSIVE ScanString(_, _, _)
\* a string literal from position i, after its opening quote; '' inside it
\* is one quote
ScanString(s, i, acc) ==
    IF i > Len(s) THEN [ok |-> FALSE, text |-> acc, next |-> i]
    ELSE IF s[i] = "'"
         THEN IF i + 1 <= Len(s) /\ s[i + 1] = "'"
              THEN ScanString(s, i + 2, Append(acc, "'"))
              ELSE [ok |-> TRUE, text |-> acc, next |-> i + 1]
         ELSE ScanString(s, i + 1, Append(acc, s[i]))

RECURSIVE ScanDigits(_, _)
\* the position after the run of digits that starts at i
ScanDigits(s, i) ==
    IF i <= Len(s) /\ s[i] \in DigitChars THEN ScanDigits(s, i + 1) ELSE i

RECURSIVE Lex(_, _)
\* the tokens of the first statement of s from position i: it ends at the
\* end of s, at a comment, or at a ";" (stop is its position, else 0)
Lex(s, i) ==
    IF i > Len(s) \/ s[i] = "--" THEN [ok |-> TRUE, toks |-> <<>>, stop |-> 0]
    ELSE IF s[i] = ";" THEN [ok |-> TRUE, toks |-> <<>>, stop |-> i]
    ELSE IF s[i] = "'"
    THEN LET lit == ScanString(s, i + 1, <<>>)
         IN  IF ~lit.ok THEN [ok |-> FALSE, toks |-> <<>>, stop |-> 0]
             ELSE LET rest == Lex(s, lit.next)
                  IN  [ok |-> rest.ok,
                       toks |-> <<[k |-> "str", text |-> lit.text]>>
                                    \o rest.toks,
                       stop |-> rest.stop]
    ELSE IF s[i] \in DigitChars
    THEN LET j == ScanDigits(s, i)
             rest == Lex(s, j)
         IN  [ok |-> rest.ok,
              toks |-> <<[k |-> "num", text |-> SubSeq(s, i, j - 1)]>>
                           \o rest.toks,
              stop |-> rest.stop]
    ELSE LET rest == Lex(s, i + 1)
             kd == IF s[i] \in {"(", ")", ","} THEN "sym" ELSE "id"
         IN  [ok |-> rest.ok,
              toks |-> <<[k |-> kd, text |-> <<s[i]>>]>> \o rest.toks,
              stop |-> rest.stop]

\* text other than a comment follows the first statement's ";"
HasSecondStatement(s, stop) ==
    stop # 0 /\ stop + 1 <= Len(s) /\ s[stop + 1] # "--"

IsSym(toks, i, c) ==
    i <= Len(toks) /\ toks[i].k = "sym" /\ toks[i].text = <<c>>
IsLiteral(toks, i) == i <= Len(toks) /\ toks[i].k \in {"str", "num"}

\* the value stored in column user TEXT
TextAffinity(tok) == TextVal(tok.text)

\* the value stored in column amount REAL
RealAffinity(tok) ==
    IF tok.k = "num" THEN RealVal(ParseNat(tok.text))
    ELSE IF tok.text # <<>> /\ \A i \in 1..Len(tok.text) :
                                    tok.text[i] \in DigitChars
         THEN RealVal(ParseNat(tok.text))
         ELSE TextVal(tok.text)

RECURSIVE ParseValues(_, _)
\* the rows of VALUES (v, v) [, (v, v)]... from token i: ok with the rows
\* and the position after them, or a syntax error
ParseValues(toks, i) ==
    IF /\ IsSym(toks, i, "(")
       /\ IsLiteral(toks, i + 1)
       /\ IsSym(toks, i + 2, ",")
       /\ IsLiteral(toks, i + 3)
       /\ IsSym(toks, i + 4, ")")
    THEN LET row == [user |-> TextAffinity(toks[i + 1]),
                     amount |-> RealAffinity(toks[i + 3])]
         IN  IF IsSym(toks, i + 5, ",")
             THEN LET more == ParseValues(toks, i + 6)
                  IN  [ok |-> more.ok, rows |-> <<row>> \o more.rows,
                       next |-> more.next]
             ELSE [ok |-> TRUE, rows |-> <<row>>, next |-> i + 5]
    ELSE [ok |-> FALSE, rows |-> <<>>, next |-> i]

HasTable(db, name) == \E i \in 1..Len(db.tables) : db.tables[i] = name

\* cur.execute of the INSERT: the database after it, or the error raised
\* (the statement is compiled first: a syntax error, then a missing table;
\* then text after the statement is refused)
ExecuteInsert(db, stmt) ==
    LET lx == Lex(stmt, 1)
        pv == ParseValues(lx.toks, 1)
    IN  IF ~lx.ok \/ ~pv.ok \/ pv.next <= Len(lx.toks)
        THEN [raised |-> "OperationalError", db |-> db]
        ELSE IF ~HasTable(db, "orders")
        THEN [raised |-> "OperationalError", db |-> db]
        ELSE IF HasSecondStatement(stmt, lx.stop)
        THEN [raised |-> "ProgrammingError", db |-> db]
        ELSE [raised |-> "none",
              db |-> [db EXCEPT !.rows = @ \o pv.rows]]

\* cur.execute("CREATE TABLE orders(user TEXT, amount REAL)")
ExecuteCreateTable(db) ==
    IF HasTable(db, "orders")
    THEN [raised |-> "OperationalError", db |-> db]
    ELSE [raised |-> "none", db |-> [db EXCEPT !.tables = Append(@, "orders")]]

\* conn.commit(); conn.close(): a file's database keeps the changes, a
\* private in-memory database is gone
Commit(path, db) ==
    IF path = MEMORY THEN disk ELSE [disk EXCEPT ![path] = db]

\* SELECT user, amount FROM orders on a new connection to path
ReadOrders(path) ==
    LET db == Connect(path)
    IN  IF HasTable(db, "orders") THEN [ok |-> TRUE, rows |-> db.rows]
        ELSE [ok |-> FALSE, rows |-> <<>>]

OrderUsers ==
    { <<"a">>, <<"b">>, <<>>,
      <<"o", "'", "b">>,
      <<"a", "'", "'", "b">>,
      <<"a", "'", ",", "1", ")", "--">>,
      <<"a", "'", ",", "1", ")", ",", "(", "'", "b">>,
      <<"a", "'", ",", "1", ")", ";", "x">> }
Amounts == 0..MaxAmount

\* the connection of a call: closed when the call ran to its last line,
\* left open when execute raised before conn.close()
ConnsAfter(raised) == IF raised = "none" THEN openConns ELSE openConns + 1

\* OrderManager.create_order(username, amount)
CreateOrder(username, amount) ==
    LET db == Connect(db_path)
        r == ExecuteInsert(db, BuildInsert(username, amount))
    IN  /\ Len(r.db.rows) <= MaxRows
        /\ ConnsAfter(r.raised) <= MaxOpen
        /\ disk' = Commit(db_path, r.db)
        /\ openConns' = ConnsAfter(r.raised)
        /\ lastCall' = [op |-> "create_order", username |-> username,
                        amount |-> amount, before |-> ReadOrders(db_path),
                        raised |-> r.raised]
        /\ UNCHANGED <<counterVars, mainpc, k, total, users, db_path>>

\* init_db(path)
InitDb(path) ==
    LET db == Connect(path)
        r == ExecuteCreateTable(db)
    IN  /\ ConnsAfter(r.raised) <= MaxOpen
        /\ disk' = Commit(path, r.db)
        /\ openConns' = ConnsAfter(r.raised)
        /\ lastCall' = [op |-> "init_db", path |-> path,
                        raised |-> r.raised]
        /\ UNCHANGED <<counterVars, mainpc, k, total, users, db_path>>

\* the interpreter frees a connection object nothing refers to any more,
\* which closes it
Finalize ==
    /\ openConns > 0
    /\ openConns' = openConns - 1
    /\ UNCHANGED <<counterVars, mainpc, k, total, users, db_path, disk,
                   lastCall>>

\* --------------------------------------------------------- shared counter
\* SHARED_COUNTER += 1 is a load, an add and a store; nothing orders the
\* threads between the load and the store.

\* for _ in range(n): the loop head with iterations left; LOAD_GLOBAL
IncrementLoad(t) ==
    /\ tpc[t] = "loop"
    /\ ti[t] < n
    /\ treg' = [treg EXCEPT ![t] = SHARED_COUNTER]
    /\ tpc' = [tpc EXCEPT ![t] = "store"]
    /\ UNCHANGED <<SHARED_COUNTER, start, nthreads, n, ti>>
    /\ UNCHANGED <<mainpc, k, total, users, orderVars, lastCall>>

\* BINARY_ADD; STORE_GLOBAL (the loaded value is popped from the stack)
IncrementStore(t) ==
    /\ tpc[t] = "store"
    /\ SHARED_COUNTER' = treg[t] + 1
    /\ ti' = [ti EXCEPT ![t] = ti[t] + 1]
    /\ tpc' = [tpc EXCEPT ![t] = "loop"]
    /\ treg' = [treg EXCEPT ![t] = 0]
    /\ UNCHANGED <<start, nthreads, n>>
    /\ UNCHANGED <<mainpc, k, total, users, orderVars, lastCall>>

\* range(n) is exhausted: the function returns and the thread ends
IncrementReturn(t) ==
    /\ tpc[t] = "loop"
    /\ ti[t] = n
    /\ tpc' = [tpc EXCEPT ![t] = "done"]
    /\ UNCHANGED <<SHARED_COUNTER, start, nthreads, n, ti, treg>>
    /\ UNCHANGED <<mainpc, k, total, users, orderVars, lastCall>>

increment_shared_counter(t) ==
    \/ IncrementLoad(t)
    \/ IncrementStore(t)
    \/ IncrementReturn(t)

\* ------------------------------------------------------------------- main
\* what read_users_from_json may return
UserFiles ==
    { <<>>, <<None, Some([username |-> "alice", age |-> 30])>> }

RECURSIVE AddAll(_, _)
\* for u in data: manager.add_user(u)
AddAll(us, data) ==
    IF data = <<>> THEN us
    ELSE AddAll(add_user(us, Head(data)), Tail(data))

\* data = read_users_from_json("users.json"); the add_user loop
MainLoad ==
    /\ mainpc = "load"
    /\ \/ \E data \in UserFiles :
            /\ users' = AddAll(users, data)
            /\ mainpc' = "start"
       \/ \* open or json.load raises: nothing in main catches it
          /\ mainpc' = "raised"
          /\ UNCHANGED users
    /\ UNCHANGED <<counterVars, k, total, orderVars, lastCall>>

\* for t in threads: t.start()
MainStart ==
    /\ mainpc = "start"
    /\ IF k <= nthreads
       THEN /\ tpc' = [tpc EXCEPT ![k] = "loop"]
            /\ k' = k + 1
            /\ UNCHANGED mainpc
       ELSE /\ mainpc' = "join"
            /\ k' = 1
            /\ UNCHANGED tpc
    /\ UNCHANGED <<SHARED_COUNTER, start, nthreads, n, ti, treg>>
    /\ UNCHANGED <<total, users, orderVars, lastCall>>

\* a join that returns without waiting
JoinReturnsAtOnce(t) == TRUE

\* t.join() returns once thread t has ended
JoinReturns(t) == tpc[t] = "done"

\* for t in threads: t.join()
MainJoin ==
    /\ mainpc = "join"
    /\ IF k <= nthreads
       THEN /\ JoinReturns(k)
            /\ k' = k + 1
            /\ UNCHANGED mainpc
       ELSE /\ mainpc' = "fetch"
            /\ k' = 1
    /\ UNCHANGED <<counterVars, total, users, orderVars, lastCall>>

\* asyncio.run(fetch_user_score("alice")) inside try / except Exception: pass
MainFetch ==
    /\ mainpc = "fetch"
    /\ mainpc' = "eval"
    /\ UNCHANGED <<counterVars, k, total, users, orderVars, lastCall>>

\* dangerous_eval(...) inside try / except Exception: pass
MainEval ==
    /\ mainpc = "eval"
    /\ mainpc' = "report"
    /\ UNCHANGED <<counterVars, k, total, users, orderVars, lastCall>>

\* users = manager.get_all_users_old(); print
MainReport ==
    /\ mainpc = "report"
    /\ mainpc' = "pricing"
    /\ UNCHANGED <<counterVars, k, total, users, orderVars, lastCall>>

\* total = orders.total_with_tax_and_discount(100.0, user_type=2); print
MainPricing ==
    /\ mainpc = "pricing"
    /\ total' = total_with_tax_and_discount(10000, 2)
    /\ mainpc' = "finish"
    /\ UNCHANGED <<counterVars, k, users, orderVars, lastCall>>

\* monkey_patch_random(); noisy_prints(...)
MainFinish ==
    /\ mainpc = "finish"
    /\ mainpc' = "done"
    /\ UNCHANGED <<counterVars, k, total, users, orderVars, lastCall>>

main ==
    \/ MainLoad
    \/ MainStart
    \/ MainJoin
    \/ MainFetch
    \/ MainEval
    \/ MainReport
    \/ MainPricing
    \/ MainFinish

NoCall == [op |-> "none", raised |-> "none"]

\* the state after the module is imported and the managers are constructed
Constructed ==
    /\ mainpc = "load"
    /\ k = 1
    /\ tpc = [t \in Threads |-> "created"]
    /\ ti = [t \in Threads |-> 0]
    /\ treg = [t \in Threads |-> 0]
    /\ total = 0
    /\ users = <<>>
    /\ disk = [p \in FilePaths |-> EmptyDb]
    /\ openConns = 0
    /\ lastCall = NoCall

InitMain ==
    /\ Constructed
    /\ SHARED_COUNTER \in 0..MaxStart
    /\ start = SHARED_COUNTER
    /\ nthreads \in 1..MaxThreads
    /\ n \in 0..MaxN
    /\ db_path = MEMORY

InitUsers ==
    /\ Constructed
    /\ SHARED_COUNTER = 0
    /\ start = 0
    /\ nthreads = 1
    /\ n = 0
    /\ db_path = MEMORY

InitOrders ==
    /\ Constructed
    /\ SHARED_COUNTER = 0
    /\ start = 0
    /\ nthreads = 1
    /\ n = 0
    /\ db_path \in DbPaths

NextMain ==
    \/ main
    \/ \E t \in Threads : increment_shared_counter(t)

SpecMain == InitMain /\ [][NextMain]_vars

NextUsers ==
    \/ \E u \in UserInputs : AddUser(u)
    \/ \E username \in Usernames, age \in Ages : UpdateUserAge(username, age)

SpecUsers == InitUsers /\ [][NextUsers]_vars

NextOrders ==
    \/ \E path \in DbPaths : InitDb(path)
    \/ \E username \in OrderUsers, amount \in Amounts :
            CreateOrder(username, amount)
    \/ Finalize

SpecOrders == InitOrders /\ [][NextOrders]_vars

NextPricing ==
    \E subtotal \in (-MaxSubtotal)..MaxSubtotal,
       user_type \in (-1)..MaxUserType :
        TotalWithTaxAndDiscount(subtotal, user_type)

SpecPricing == InitOrders /\ [][NextPricing]_vars

\* the interpreter keeps scheduling every thread that can take a step
FairSpecMain ==
    /\ SpecMain
    /\ \A t \in Threads : WF_vars(increment_shared_counter(t))

\* ----------------------------------------------------------------- claims
AfterWorkerPhase == {"fetch", "eval", "report", "pricing", "finish", "done"}
Started(t) == tpc[t] # "created"
AllThreadsDone == \A t \in 1..nthreads : tpc[t] = "done"

\* C1: when every thread has finished, the counter is its starting value
\* plus (number of threads) * n: no increment is lost.
C1_NoLostUpdates ==
    AllThreadsDone => SHARED_COUNTER = start + nthreads * n

\* C2: at most one thread at a time is between reading the counter and
\* writing it back.
C2_OneIncrementAtATime ==
    Cardinality({t \in Threads : tpc[t] = "store"}) <= 1

\* C3: the driver runs no step after the worker phase (the score fetch, the
\* pricing call, any later step) while a started thread is still running,
\* and every started thread eventually ends.
C3_JoinedBeforeLaterSteps ==
    /\ [](mainpc \in AfterWorkerPhase =>
            \A t \in Threads : Started(t) => tpc[t] = "done")
    /\ \A t \in Threads : [](Started(t) => <>(tpc[t] = "done"))

C3_Witness ==
    /\ mainpc = "pricing"
    /\ nthreads >= 2
    /\ n >= 1
    /\ \A t \in 1..nthreads : tpc[t] = "done" /\ ti[t] = n

\* the tiers the pricing contract defines: 1 is Regular, 2 is VIP, 0 is no tier
DefinedTiers == {0, 1, 2}
IsPricingCall == lastCall.op = "total_with_tax_and_discount"

\* C4: a pricing call with a user_type outside the defined tiers fails with
\* UnknownTier; it returns no total.
C4_UnknownTierRejected ==
    (IsPricingCall /\ lastCall.user_type \notin DefinedTiers)
        => lastCall.raised = "UnknownTier"

\* the discounts the contract states, in 1/Scale: Regular 0.10, VIP 0.20
ContractDiscount(tier) ==
    CASE tier = 1 -> (10 * Scale) \div 100
      [] tier = 2 -> (20 * Scale) \div 100
      [] OTHER -> 0

\* C5: for a subtotal >= 0 and a defined tier the total returned is >= 0, it
\* is subtotal * (1 - discount) * (1 + 0.0825) with the contract's discounts
\* (1.0825 = 433 / 400), and for that subtotal
\* total(VIP) <= total(Regular) <= total(no tier).
C5_TotalsOrdered ==
    (IsPricingCall /\ lastCall.subtotal >= 0
                   /\ lastCall.user_type \in DefinedTiers)
        => /\ lastCall.raised = "none"
           /\ lastCall.ret >= 0
           /\ \* ret / Scale^2 = subtotal * (1 - d / Scale) * (433 / 400)
              lastCall.ret * 400 =
                lastCall.subtotal
                    * (Scale - ContractDiscount(lastCall.user_type))
                    * 433 * Scale
           /\ total_with_tax_and_discount(lastCall.subtotal, 2)
                <= total_with_tax_and_discount(lastCall.subtotal, 1)
           /\ total_with_tax_and_discount(lastCall.subtotal, 1)
                <= total_with_tax_and_discount(lastCall.subtotal, 0)

C5_Witness ==
    /\ IsPricingCall
    /\ lastCall.subtotal = MaxSubtotal
    /\ lastCall.user_type = 2
    /\ lastCall.ret > 0
    /\ lastCall.ret < total_with_tax_and_discount(MaxSubtotal, 1)

IsUpdateCall == lastCall.op = "update_user_age"
\* the users of us that update_user_age(username, ...) could mean
Named(us, username) == {i \in 1..Len(us) : UsernameIs(us[i], username)}

\* C6: update_user_age fails with InvalidAge for an age below 0 or above 150
\* and changes no record; for a valid age and an unknown username it returns
\* false and changes no record; for a valid age and a known username it
\* returns true, sets that user's age and changes no other record.
C6_UpdateAgeContract ==
    IsUpdateCall =>
        IF lastCall.age < 0 \/ lastCall.age > 150
        THEN lastCall.raised = "InvalidAge" /\ users = lastCall.before
        ELSE IF Named(lastCall.before, lastCall.username) = {}
        THEN /\ lastCall.raised = "none"
             /\ lastCall.ret = FALSE
             /\ users = lastCall.before
        ELSE /\ lastCall.raised = "none"
             /\ lastCall.ret = TRUE
             /\ \E i \in Named(lastCall.before, lastCall.username) :
                    users = [lastCall.before EXCEPT
                                ![i] = SetItem(@, "age", lastCall.age)]

\* a record add_user must refuse: None, or no username, or an empty one
InvalidRecord(u) ==
    \/ u = None
    \/ "username" \notin DOMAIN u[1]
    \/ u[1]["username"] = ""

\* C7: add_user of a null record or of a record without a non-empty
\* username fails with InvalidUser and leaves the registry as it was.
C7_InvalidUserRejected ==
    (lastCall.op = "add_user" /\ InvalidRecord(lastCall.u))
        => lastCall.raised = "InvalidUser" /\ users = lastCall.before

OrdersTables(db) == {i \in 1..Len(db.tables) : db.tables[i] = "orders"}

\* C8: init_db never raises, however often it has been called on the store,
\* and a store it was called on holds exactly one orders table.
C8_InitDbIdempotent ==
    lastCall.op = "init_db" =>
        /\ lastCall.raised = "none"
        /\ lastCall.path \in FilePaths =>
                Cardinality(OrdersTables(disk[lastCall.path])) = 1

\* C9: no connection opened by create_order or init_db is open once the
\* call has returned or raised.
C9_ConnectionsReleased == openConns = 0

\* the row create_order(username, amount) is to store
OrderRow(username, amount) ==
    [user |-> TextVal(username), amount |-> RealVal(amount)]

\* C10: after a create_order(user, amount) that returned normally, reading
\* the orders table of the manager's store yields the rows it held before
\* followed by exactly one row, with that user and that amount (one row in
\* all after the first order on a newly initialised store).
C10_OneRowPerOrder ==
    (lastCall.op = "create_order" /\ lastCall.raised = "none") =>
        /\ lastCall.before.ok
        /\ ReadOrders(db_path).ok
        /\ ReadOrders(db_path).rows =
              Append(lastCall.before.rows,
                     OrderRow(lastCall.username, lastCall.amount))
====
